---- MODULE Spec2Model ----
(***************************************************************************)
(* Team social curator: OAuth connector, token store, feeds and post cache. *)
(*                                                                         *)
(* The edge functions (save-social-tokens, disconnect-social-account,      *)
(* fetch-social-posts, exchange-oauth-token), the curator component's      *)
(* OAuth round trip and the module-load step of lib/supabase.ts are        *)
(* modelled as state machines over the four tables and the browser's       *)
(* storage.  Every await of a handler that separates two effects is a      *)
(* separate step.                                                          *)
(*                                                                         *)
(* Numbers that denote time are kept in units of 10^6 (1000 seconds when   *)
(* they are milliseconds): TLC integers are 32 bit, and in these units     *)
(* n * 1000 and the seconds/milliseconds cutoff stay exact.                *)
(***************************************************************************)
EXTENDS FiniteSets, Integers, Sequences, TLC

Null == "null"
NoTime == 0 - 1

PlatformKey == {"youtube", "facebook", "instagram", "linkedin"}

Teams == {1, 2}
Users == {"u1", "u2", "u3"}

\* ------------------------------------------------------------------ bounds
MaxFeeds == 2
MaxTicks == 2
MaxAuth == 2
MaxLoads == 2
MaxShown == 1

\* ------------------------------------------------------------- identities
\* team id carried in the caller's user metadata
TeamIdOf(u) == IF u = "u3" THEN 2 ELSE 1

\* row-level policy of the team-scoped tables: a caller reaches only the rows
\* of the team it belongs to
user_belongs_to_team_open(u, t) == TRUE
user_belongs_to_team(u, t) == TeamIdOf(u) = t

Visible(u, rows) == {r \in rows : user_belongs_to_team(u, r.team_id)}

\* ------------------------------------------------------------------ clock
T0 == 1700000

\* ------------------------------------------------------------ expiry hint
\* 10_000_000_000 in units of 10^6
SecondsCutoff == 10 * 1000

\* an expiry hint as it travels in a request: null, a number, a numeric
\* string or a date string (v is the instant it spells)
NoHint == [t |-> "null", v |-> 0]
NumHint(n) == [t |-> "num", v |-> n]
StrHint(n) == [t |-> "str", v |-> n]
DateHint(n) == [t |-> "date", v |-> n]

\* canonical absolute instant (milliseconds) of an expiry hint, NoTime for null
toIsoString(expiresAt) ==
    IF expiresAt.t = "null" \/ (expiresAt.t = "num" /\ expiresAt.v = 0)
    THEN NoTime
    ELSE IF expiresAt.t = "str"
         THEN expiresAt.v * 1000
         ELSE IF expiresAt.t = "date"
              THEN expiresAt.v
              ELSE IF expiresAt.t = "num"
                   THEN (IF expiresAt.v < SecondsCutoff THEN expiresAt.v * 1000
                         ELSE expiresAt.v)
                   ELSE NoTime

\* ------------------------------------------------------------------ limit
\* a limit as the request carries it: undefined, a string, NaN, or the number
\* v + f/10 with 0 <= f <= 9
NoLimit == [t |-> "undefined", v |-> 0, f |-> 0]
StrLimit(n) == [t |-> "string", v |-> n, f |-> 0]
NaNLimit == [t |-> "NaN", v |-> 0, f |-> 0]
NumLimit(n) == [t |-> "number", v |-> n, f |-> 0]
FracLimit(n, tenths) == [t |-> "number", v |-> n, f |-> tenths]

Min(a, b) == IF a < b THEN a ELSE b
Max(a, b) == IF a > b THEN a ELSE b

\* typeof limit !== 'number' || Number.isNaN(limit) || limit <= 0
NotPositiveNumber(limit) ==
    limit.t # "number" \/ limit.v < 0 \/ (limit.v = 0 /\ limit.f = 0)

normalizeLimit_noClamp(limit) ==
    IF NotPositiveNumber(limit) THEN 5 ELSE limit.v
normalizeLimit(limit) ==
    IF NotPositiveNumber(limit)
    THEN 5
    ELSE Min(Max(limit.v, 1), 20)

\* the component's sanitizeLimit: the number it puts into the request
sanitizeLimit(value) ==
    IF NotPositiveNumber(value)
    THEN NumLimit(5)
    ELSE NumLimit(Min(value.v, 20))

\* -------------------------------------------------------------- variables
VARIABLES
    now,          \* server clock
    tokens,       \* social_oauth_tokens rows
    feeds,        \* social_curator_feeds rows
    nextFeedId,   \* bigserial of social_curator_feeds
    posts,        \* social_curator_posts rows (Post Cache)
    dc,           \* disconnect requests between their two deletes
    rf,           \* fetch requests waiting for the provider
    last,         \* the step just taken and the response it produced
    lsState,      \* localStorage social_oauth_state
    lsPlatform,   \* localStorage social_oauth_platform
    ssAvail,      \* window.sessionStorage is usable in this browser
    ssResult,     \* sessionStorage social_oauth_result
    url,          \* query parameters of window.location
    page,         \* where the browser is
    effectDue,    \* the callback effect is scheduled to run
    boot,         \* bootstrap requests still in flight
    cb,           \* handleOAuthCallback between its awaits
    isProcessingOAuth,
    outcome,      \* how the last handled redirect return ended
    exchanged,    \* exchange requests sent to the Token Exchange Service
    issued,       \* number of state tokens generated so far
    loads,        \* number of arrivals at the app with query parameters
    landing,      \* the query parameters and pending state of the last arrival
    cfg,          \* social_platform_configs rows of the caller's team
    env,          \* environment of the exchange function
    tokenReq,     \* last token request sent to a provider
    uiFeeds,           \* feeds state of the component
    feedPosts,         \* feedPosts state of the component, by feed id
    connectedAccounts, \* connectedAccounts state of the component
    refreshing,        \* feeds with a fetch-social-posts call in flight
    selectedPlatform,  \* platform picked in the add-feed selector
    configs,           \* redirect_uri of the loaded config of each platform
    authRedirect,      \* redirect_uri of the last authorization URL
    fallbackUri        \* VITE_SOCIAL_OAUTH_REDIRECT_URI or window.location.origin

storeVars == <<now, tokens, feeds, nextFeedId, posts, dc, rf, last>>
viewVars == <<uiFeeds, feedPosts, connectedAccounts, refreshing>>
redirectVars == <<selectedPlatform, configs, authRedirect, fallbackUri>>
oauthVars == <<lsState, lsPlatform, ssAvail, ssResult, url, page, effectDue, boot, cb,
               isProcessingOAuth, outcome, exchanged, issued, loads, landing, redirectVars>>
clientVars == <<oauthVars, viewVars>>
exchangeVars == <<cfg, env, tokenReq>>
vars == <<storeVars, clientVars, exchangeVars>>

\* ----------------------------------------------------------------- tables
TokensFor(rows, t, p) == {r \in rows : r.team_id = t /\ r.platform = p}
FeedsFor(rows, t, p) == {r \in rows : r.team_id = t /\ r.platform = p}
PostsFor(rows, t, p, a, id) ==
    {r \in rows : r.team_id = t /\ r.platform = p /\ r.account_id = a /\ r.post_id = id}

\* upsert with onConflict team_id,platform; a reconnect that keeps the old
\* refresh token when none is sent would be a merge
UpsertToken_merge(rows, row) ==
    LET old == TokensFor(rows, row.team_id, row.platform)
        kept == IF row.refresh_token = Null /\ old # {}
                THEN (CHOOSE r \in old : TRUE).refresh_token
                ELSE row.refresh_token
    IN (rows \ old) \cup {[row EXCEPT !.refresh_token = kept]}
UpsertToken(rows, row) ==
    (rows \ TokensFor(rows, row.team_id, row.platform)) \cup {row}

\* upsert with onConflict team_id,platform,account_id,post_id
UpsertPosts_insert(rows, batch) == rows \cup batch
UpsertPosts(rows, batch) ==
    {r \in rows : \A b \in batch :
        ~(b.team_id = r.team_id /\ b.platform = r.platform
          /\ b.account_id = r.account_id /\ b.post_id = r.post_id)} \cup batch

Resp(op, u, p, status, error, rows) ==
    [op |-> op, user |-> u, platform |-> p, status |-> status, error |-> error, rows |-> rows,
     arg |-> Null]

Idle == [pc |-> "idle"]

\* -------------------------------------------------------- save-social-tokens
TokenRow(u, body) ==
    [team_id |-> TeamIdOf(u),
     platform |-> body.platform,
     access_token |-> body.access_token,
     refresh_token |-> body.refresh_token,
     expires_at |-> toIsoString(body.expires_at),
     metadata |-> body.metadata,
     connected_by_user_id |-> u]

\* the handler: new table and response
SaveSocialTokens(rows, u, body, dbOk) ==
    IF body.access_token = Null
    THEN [rows |-> rows,
          resp |-> Resp("save_token", u, body.platform, "error",
                        "platform and access_token are required", {})]
    ELSE IF ~dbOk \/ ~user_belongs_to_team(u, TeamIdOf(u))
         THEN [rows |-> rows,
               resp |-> Resp("save_token", u, body.platform, "error", "DbError", {})]
         ELSE LET written == UpsertToken(rows, TokenRow(u, body))
              IN [rows |-> written,
                  resp |-> Resp("save_token", u, body.platform, "ok", Null,
                                TokensFor(written, TeamIdOf(u), body.platform))]

SaveToken(u, body, dbOk) ==
    /\ tokens' = SaveSocialTokens(tokens, u, body, dbOk).rows
    /\ last' = [SaveSocialTokens(tokens, u, body, dbOk).resp EXCEPT !.arg = body]
    /\ UNCHANGED <<now, feeds, nextFeedId, posts, dc, rf>>
    /\ UNCHANGED <<clientVars, exchangeVars>>

\* -------------------------------------------------- disconnect-social-account
\* a handler that goes on to the feeds when the token delete has failed
DisconnectTokens_ignoreError(u, p, dbOk) ==
    /\ dc[u] = Null
    /\ tokens' = IF dbOk THEN tokens \ Visible(u, TokensFor(tokens, TeamIdOf(u), p)) ELSE tokens
    /\ dc' = [dc EXCEPT ![u] = p]
    /\ last' = Resp("disconnect", u, p, "pending", Null, {})
    /\ UNCHANGED <<now, feeds, nextFeedId, posts, rf>>
    /\ UNCHANGED <<clientVars, exchangeVars>>
\* first statement: delete the token row
DisconnectTokens(u, p, dbOk) ==
    /\ dc[u] = Null
    /\ IF dbOk
       THEN /\ tokens' = tokens \ Visible(u, TokensFor(tokens, TeamIdOf(u), p))
            /\ dc' = [dc EXCEPT ![u] = p]
            /\ last' = Resp("disconnect", u, p, "pending", Null, {})
       ELSE /\ UNCHANGED <<tokens, dc>>
            /\ last' = Resp("disconnect", u, p, "error", "DbError", {})
    /\ UNCHANGED <<now, feeds, nextFeedId, posts, rf>>
    /\ UNCHANGED <<clientVars, exchangeVars>>

\* a cascade that stops after the first feed row
DeleteFeedsOf_one(u, rows, p) ==
    LET mine == Visible(u, FeedsFor(rows, TeamIdOf(u), p))
    IN IF mine = {} THEN rows ELSE rows \ {CHOOSE r \in mine : TRUE}
DeleteFeedsOf(u, rows, p) == rows \ Visible(u, FeedsFor(rows, TeamIdOf(u), p))

\* second statement: delete the feeds of the platform
DisconnectFeeds(u, dbOk) ==
    /\ dc[u] # Null
    /\ IF dbOk
       THEN /\ feeds' = DeleteFeedsOf(u, feeds, dc[u])
            /\ last' = Resp("disconnect", u, dc[u], "ok", Null, {})
       ELSE /\ UNCHANGED feeds
            /\ last' = Resp("disconnect", u, dc[u], "error", "DbError", {})
    /\ dc' = [dc EXCEPT ![u] = Null]
    /\ UNCHANGED <<now, tokens, nextFeedId, posts, rf>>
    /\ UNCHANGED <<clientVars, exchangeVars>>

\* --------------------------------------------- table queries of the component
\* loadConnectedAccounts: select platform from social_oauth_tokens
SelectConnected(u, teamArg) ==
    /\ last' = Resp("list_connected", u, Null, "ok", Null,
                    {[platform |-> r.platform] :
                        r \in {x \in Visible(u, tokens) : x.team_id = teamArg}})
    /\ UNCHANGED <<now, tokens, feeds, nextFeedId, posts, dc, rf>>
    /\ UNCHANGED <<clientVars, exchangeVars>>

\* loadFeeds: select from social_curator_feeds
SelectFeeds(u, teamArg) ==
    /\ last' = Resp("list_feeds", u, Null, "ok", Null,
                    {x \in Visible(u, feeds) : x.team_id = teamArg})
    /\ UNCHANGED <<now, tokens, feeds, nextFeedId, posts, dc, rf>>
    /\ UNCHANGED <<clientVars, exchangeVars>>

\* addFeed: insert into social_curator_feeds
InsertFeed(u, teamArg, p, a) ==
    /\ nextFeedId <= MaxFeeds
    /\ LET row == [id |-> nextFeedId, team_id |-> teamArg, platform |-> p, account_id |-> a]
       IN IF user_belongs_to_team(u, teamArg)
          THEN /\ feeds' = feeds \cup {row}
               /\ nextFeedId' = nextFeedId + 1
               /\ last' = Resp("add_feed", u, p, "ok", Null, {row})
          ELSE /\ UNCHANGED <<feeds, nextFeedId>>
               /\ last' = Resp("add_feed", u, p, "error", "RlsDenied", {})
    /\ UNCHANGED <<now, tokens, posts, dc, rf>>
    /\ UNCHANGED <<clientVars, exchangeVars>>

\* removeFeed: delete from social_curator_feeds where id = feedId
DeleteFeed(u, feedId) ==
    /\ feeds' = feeds \ {r \in Visible(u, feeds) : r.id = feedId}
    /\ last' = Resp("remove_feed", u, Null, "ok", Null, {})
    /\ UNCHANGED <<now, tokens, nextFeedId, posts, dc, rf>>
    /\ UNCHANGED <<clientVars, exchangeVars>>

\* ---------------------------------------------------------- fetch-social-posts
TokenExpired_lax(expiresAt, t) == expiresAt < t
TokenExpired(expiresAt, t) == expiresAt # NoTime /\ expiresAt < t

\* what maybeSingle() hands back when no row matches
NoTokenRecord == [access_token |-> Null, expires_at |-> NoTime]

\* the check that the platform is connected
PlatformConnected_any(tokenRecord) == TRUE
PlatformConnected(tokenRecord) == tokenRecord.access_token # Null

\* response of the first part of the handler, with the limit that was asked for
FetchResp(u, p, requested, status, error) ==
    [Resp("refresh_feed", u, p, status, error, {}) EXCEPT !.arg = requested]

\* the token row the handler reads for the caller's team and platform
FetchToken(u, p) ==
    LET rec == {x \in Visible(u, tokens) : x.team_id = TeamIdOf(u) /\ x.platform = p}
    IN IF rec = {} THEN NoTokenRecord ELSE CHOOSE x \in rec : TRUE

\* what the handler throws before it calls the adapter, Null when it goes on
FetchError(u, p, dbOk) ==
    LET rec == {x \in Visible(u, tokens) : x.team_id = TeamIdOf(u) /\ x.platform = p}
        tok == FetchToken(u, p)
    IN IF ~dbOk \/ Cardinality(rec) > 1 THEN "DbError"
       ELSE IF ~PlatformConnected(tok) THEN "NotConnected"
       ELSE IF TokenExpired(tok.expires_at, now) THEN "TokenExpired"
       ELSE Null

\* token lookup and expiry check, then the request to the provider
FetchPosts(u, p, a, requested, limit, dbOk) ==
    /\ rf[u] = Idle
    /\ IF FetchError(u, p, dbOk) # Null
       THEN /\ last' = FetchResp(u, p, requested, "error", FetchError(u, p, dbOk))
            /\ UNCHANGED rf
       ELSE /\ last' = FetchResp(u, p, requested, "pending", Null)
            /\ rf' = [rf EXCEPT ![u] =
                        [pc |-> "provider", platform |-> p, account_id |-> a,
                         limit |-> normalizeLimit(limit),
                         access_token |-> FetchToken(u, p).access_token]]
    /\ UNCHANGED <<now, tokens, feeds, nextFeedId, posts, dc>>
    /\ UNCHANGED <<clientVars, exchangeVars>>

\* a call of fetch-social-posts with the limit as sent
FetchStart(u, p, a, limit, dbOk) == FetchPosts(u, p, a, limit, limit, dbOk)

\* refreshFeed of the component: the limit goes through sanitizeLimit first
refreshFeed(u, p, a, limit, dbOk) == FetchPosts(u, p, a, limit, sanitizeLimit(limit), dbOk)

CacheBatch(u, req, ids, t) ==
    {[team_id |-> TeamIdOf(u), platform |-> req.platform, account_id |-> req.account_id,
      post_id |-> id, fetched_at |-> t] : id \in ids}

\* the rows the adapter's posts are returned as
PostsOf(req, ids) == {[post_id |-> id, account_id |-> req.account_id] : id \in ids}

\* the answer of the handler once the adapter returned (ok) or threw; a failed
\* cache upsert is caught and logged, the answer does not depend on it
FetchAnswer_strict(u, req, ok, ids, cacheOk) ==
    [(IF ok /\ (ids = {} \/ cacheOk)
      THEN Resp("refresh_feed", u, req.platform, "ok", Null, PostsOf(req, ids))
      ELSE Resp("refresh_feed", u, req.platform, "error", "AdapterFetchFailed", {}))
     EXCEPT !.arg = [ok |-> ok, ids |-> ids, cacheOk |-> cacheOk]]
FetchAnswer(u, req, ok, ids, cacheOk) ==
    [(IF ok
      THEN Resp("refresh_feed", u, req.platform, "ok", Null, PostsOf(req, ids))
      ELSE Resp("refresh_feed", u, req.platform, "error", "AdapterFetchFailed", {}))
     EXCEPT !.arg = [ok |-> ok, ids |-> ids, cacheOk |-> cacheOk]]

\* the Post Cache after the handler: written only with posts of a successful
\* adapter call, and left alone when the upsert fails
CacheAfterFetch(rows, u, req, ok, ids, cacheOk, t) ==
    IF ok /\ ids # {} /\ cacheOk
    THEN UpsertPosts(rows, CacheBatch(u, req, ids, t))
    ELSE rows

\* the provider answers; on success the posts are upserted into the cache
FetchFinish(u, ok, ids, cacheOk) ==
    /\ rf[u] # Idle
    /\ Cardinality(ids) <= rf[u].limit
    /\ last' = FetchAnswer(u, rf[u], ok, ids, cacheOk)
    /\ posts' = CacheAfterFetch(posts, u, rf[u], ok, ids, cacheOk, now)
    /\ rf' = [rf EXCEPT ![u] = Idle]
    /\ UNCHANGED <<now, tokens, feeds, nextFeedId, dc>>
    /\ UNCHANGED <<clientVars, exchangeVars>>

Tick ==
    /\ now < T0 + MaxTicks
    /\ now' = now + 1
    /\ last' = Resp("tick", Null, Null, "ok", Null, {})
    /\ UNCHANGED <<tokens, feeds, nextFeedId, posts, dc, rf>>
    /\ UNCHANGED <<clientVars, exchangeVars>>

\* ------------------------------------------------------- exchange-oauth-token
EnvKeys == {"GOOGLE_CLIENT_ID", "GOOGLE_CLIENT_SECRET", "GOOGLE_TOKEN_URL",
            "FACEBOOK_APP_ID", "FACEBOOK_APP_SECRET", "FACEBOOK_TOKEN_URL",
            "LINKEDIN_CLIENT_ID", "LINKEDIN_CLIENT_SECRET", "LINKEDIN_TOKEN_URL"}

IdKey(p) == IF p = "youtube" THEN "GOOGLE_CLIENT_ID"
            ELSE IF p = "linkedin" THEN "LINKEDIN_CLIENT_ID" ELSE "FACEBOOK_APP_ID"
SecretKey(p) == IF p = "youtube" THEN "GOOGLE_CLIENT_SECRET"
                ELSE IF p = "linkedin" THEN "LINKEDIN_CLIENT_SECRET" ELSE "FACEBOOK_APP_SECRET"
UrlKey(p) == IF p = "youtube" THEN "GOOGLE_TOKEN_URL"
             ELSE IF p = "linkedin" THEN "LINKEDIN_TOKEN_URL" ELSE "FACEBOOK_TOKEN_URL"
DefaultTokenUrl(p) ==
    IF p = "youtube" THEN "https://oauth2.googleapis.com/token"
    ELSE IF p = "linkedin" THEN "https://www.linkedin.com/oauth/v2/accessToken"
    ELSE "https://graph.facebook.com/v18.0/oauth/access_token"

\* the config row of (team, platform), or the row of nulls when there is none
NoConfig(t, p) ==
    [team_id |-> t, platform |-> p, client_id |-> Null, client_secret |-> Null,
     auth_url |-> Null, token_url |-> Null, scopes |-> Null, redirect_uri |-> Null]
ConfigOf(rows, t, p) ==
    IF \E r \in rows : r.team_id = t /\ r.platform = p
    THEN CHOOSE r \in rows : r.team_id = t /\ r.platform = p
    ELSE NoConfig(t, p)

\* a body that is the same four fields for every platform
TokenBody_bare(p, code, redirectUri, clientId, clientSecret) ==
    [code |-> code, client_id |-> clientId, client_secret |-> clientSecret,
     redirect_uri |-> redirectUri]
\* form body of the token request, by platform
TokenBody(p, code, redirectUri, clientId, clientSecret) ==
    IF p = "youtube"
    THEN [code |-> code, client_id |-> clientId, client_secret |-> clientSecret,
          redirect_uri |-> redirectUri, grant_type |-> "authorization_code",
          access_type |-> "offline"]
    ELSE IF p = "linkedin"
         THEN [grant_type |-> "authorization_code", code |-> code,
               redirect_uri |-> redirectUri, client_id |-> clientId,
               client_secret |-> clientSecret]
         ELSE [code |-> code, client_id |-> clientId, client_secret |-> clientSecret,
               redirect_uri |-> redirectUri]

\* the token request of the source: assertEnv on the id and the secret, the
\* environment's token URL or the platform's default; the config is not read
buildTokenRequest(p, code, redirectUri, environment, config) ==
    IF environment[IdKey(p)] = Null \/ environment[SecretKey(p)] = Null
    THEN [ok |-> FALSE, error |-> "Missing required environment variable"]
    ELSE [ok |-> TRUE,
          tokenUrl |-> IF environment[UrlKey(p)] # Null THEN environment[UrlKey(p)]
                       ELSE DefaultTokenUrl(p),
          body |-> TokenBody(p, code, redirectUri,
                             environment[IdKey(p)], environment[SecretKey(p)])]

NoTokenReq == [sent |-> FALSE]

\* the handler: the request sent to the provider (if any) and the response;
\* prov is the provider's answer to the token request
ExchangeOAuthToken(u, payload, environment, configRows, prov) ==
    IF payload.code = Null \/ payload.redirect_uri = Null
    THEN [req |-> NoTokenReq,
          resp |-> Resp("exchange", u, payload.platform, "error",
                        "platform, code, and redirect_uri are required", {})]
    ELSE LET built == buildTokenRequest(payload.platform, payload.code, payload.redirect_uri,
                                        environment,
                                        ConfigOf(configRows, TeamIdOf(u), payload.platform))
         IN IF ~built.ok
            THEN [req |-> NoTokenReq,
                  resp |-> Resp("exchange", u, payload.platform, "error", built.error, {})]
            ELSE [req |-> [sent |-> TRUE, tokenUrl |-> built.tokenUrl, body |-> built.body],
                  resp |-> IF prov.ok
                           THEN Resp("exchange", u, payload.platform, "ok", Null, {prov.data})
                           ELSE Resp("exchange", u, payload.platform, "error", prov.error, {})]

\* ------------------------------------------------------------ save-social-config
\* upsert with onConflict team_id,platform: the secret column is written only
\* when a non-empty secret is sent
social_redirect_uri_default == "https://newtrybecause-ihavenoidea.vercel.app"

\* trigger trg_enforce_social_redirect_uri, before insert or update of a row
enforce_social_redirect_uri_off(new) == new
enforce_social_redirect_uri(new) ==
    IF new.redirect_uri # social_redirect_uri_default
    THEN [new EXCEPT !.redirect_uri = social_redirect_uri_default]
    ELSE new

\* the columns the handler always writes: a field the request omits is null
ConfigPayload_merge(old, u, body) ==
    [team_id |-> TeamIdOf(u), platform |-> body.platform,
     client_id |-> IF body.client_id = Null THEN old.client_id ELSE body.client_id,
     auth_url |-> IF body.auth_url = Null THEN old.auth_url ELSE body.auth_url,
     token_url |-> IF body.token_url = Null THEN old.token_url ELSE body.token_url,
     scopes |-> IF body.scopes = Null THEN old.scopes ELSE body.scopes,
     redirect_uri |-> IF body.redirect_uri = Null THEN old.redirect_uri ELSE body.redirect_uri]
ConfigPayload(old, u, body) ==
    [team_id |-> TeamIdOf(u), platform |-> body.platform,
     client_id |-> body.client_id, auth_url |-> body.auth_url,
     token_url |-> body.token_url, scopes |-> body.scopes,
     redirect_uri |-> body.redirect_uri]

\* the row the upsert leaves, given the payload and the secret column
ConfigRow(payload, secret) ==
    enforce_social_redirect_uri(
        [team_id |-> payload.team_id, platform |-> payload.platform,
         client_id |-> payload.client_id, client_secret |-> secret,
         auth_url |-> payload.auth_url, token_url |-> payload.token_url,
         scopes |-> payload.scopes, redirect_uri |-> payload.redirect_uri])

SaveSocialConfig_overwrite(rows, u, body) ==
    LET old == ConfigOf(rows, TeamIdOf(u), body.platform)
        row == ConfigRow(ConfigPayload(old, u, body),
                         IF body.client_secret = "" THEN Null ELSE body.client_secret)
    IN {r \in rows : ~(r.team_id = row.team_id /\ r.platform = row.platform)} \cup {row}
SaveSocialConfig(rows, u, body) ==
    LET old == ConfigOf(rows, TeamIdOf(u), body.platform)
        row == ConfigRow(ConfigPayload(old, u, body),
                         IF body.client_secret # Null /\ body.client_secret # ""
                         THEN body.client_secret ELSE old.client_secret)
    IN {r \in rows : ~(r.team_id = row.team_id /\ r.platform = row.platform)} \cup {row}

SaveConfig(u, body) ==
    /\ cfg' = SaveSocialConfig(cfg, u, body)
    /\ last' = [Resp("save_config", u, body.platform, "ok", Null, {}) EXCEPT !.arg = body]
    /\ UNCHANGED <<env, tokenReq>>
    /\ UNCHANGED <<now, tokens, feeds, nextFeedId, posts, dc, rf>>
    /\ UNCHANGED clientVars

\* ------------------------------------------------------------- get-social-config
\* the view social_platform_configs_public: the columns without the secret
social_platform_configs_public(rows) ==
    {[team_id |-> r.team_id, platform |-> r.platform, client_id |-> r.client_id,
      auth_url |-> r.auth_url, token_url |-> r.token_url, scopes |-> r.scopes,
      redirect_uri |-> r.redirect_uri] : r \in rows}

\* the handler's answer: one entry per platform, filled from the caller's rows
GetSocialConfig(rows, u) ==
    LET data == {r \in Visible(u, social_platform_configs_public(rows)) :
                    r.team_id = TeamIdOf(u)}
    IN {IF \E r \in data : r.platform = p
        THEN LET r == CHOOSE x \in data : x.platform = p
             IN [platform |-> p, client_id |-> r.client_id, auth_url |-> r.auth_url,
                 token_url |-> r.token_url, scopes |-> r.scopes,
                 redirect_uri |-> r.redirect_uri]
        ELSE [platform |-> p] : p \in PlatformKey}

GetConfig(u) ==
    /\ last' = Resp("get_config", u, Null, "ok", Null, GetSocialConfig(cfg, u))
    /\ UNCHANGED <<cfg, env, tokenReq>>
    /\ UNCHANGED <<now, tokens, feeds, nextFeedId, posts, dc, rf>>
    /\ UNCHANGED clientVars

\* policy insupd_team_configs (for all to authenticated): the rows of the base
\* table a signed-in member's own query returns
insupd_team_configs(rows, u) == Visible(u, rows)

\* a member queries social_platform_configs with the browser's client
SelectConfigs(u) ==
    /\ last' = Resp("select_configs", u, Null, "ok", Null, insupd_team_configs(cfg, u))
    /\ UNCHANGED <<cfg, env, tokenReq>>
    /\ UNCHANGED <<now, tokens, feeds, nextFeedId, posts, dc, rf>>
    /\ UNCHANGED clientVars

\* ids the feeds table can hand out, and the feedPosts slot of a feed without entry
FeedIds == 1..MaxFeeds
NoEntry == [has |-> FALSE, posts |-> {}]

\* ---------------------------------------------------- the curator in a browser
Browser == "u1"
NoState == 0
Forged == 99
Origin == "https://app.example"

NoParams == [code |-> Null, state |-> NoState, error |-> Null]

\* stashPendingSocialOAuthParams of lib/supabase.ts, run when the module loads:
\* what it leaves in sessionStorage and in the URL
stashPendingSocialOAuthParams(pendingState, params, storageOk, stored) ==
    IF ~storageOk \/ pendingState = NoState
    THEN [result |-> stored, params |-> params]
    ELSE IF params.code = Null /\ params.error = Null
         THEN [result |-> stored, params |-> params]
         ELSE IF params.state # NoState /\ params.state # pendingState
              THEN [result |-> stored, params |-> params]
              ELSE [result |-> [code |-> params.code,
                                state |-> IF params.state # NoState THEN params.state
                                          ELSE pendingState,
                                error |-> params.error],
                    params |-> NoParams]

\* configs state of a new component, and after loadPlatformConfigs
NoConfigs == [p \in PlatformKey |-> Null]
LoadedConfigs(rows, u) ==
    [p \in PlatformKey |->
        LET e == CHOOSE x \in GetSocialConfig(rows, u) : x.platform = p
        IN IF "redirect_uri" \in DOMAIN e THEN e.redirect_uri ELSE Null]

\* the redirectUri memo: the selected platform's configured URI, else the fallback
redirectUri(selected, confs, fallback) ==
    IF selected # Null /\ confs[selected] # Null THEN confs[selected] ELSE fallback

\* the add-feed selector changes; a changed redirectUri gives a new
\* handleOAuthCallback, which runs the callback effect again
setSelectedPlatform(p) ==
    /\ page = "app"
    /\ ~effectDue
    /\ p # selectedPlatform
    /\ selectedPlatform' = p
    /\ effectDue' = (redirectUri(p, configs, fallbackUri)
                       # redirectUri(selectedPlatform, configs, fallbackUri))
    /\ UNCHANGED <<lsState, lsPlatform, ssAvail, ssResult, url, page, boot, cb,
                   isProcessingOAuth, outcome, exchanged, issued, loads, landing>>
    /\ UNCHANGED <<configs, authRedirect, fallbackUri>>
    /\ UNCHANGED <<storeVars, exchangeVars>>
    /\ UNCHANGED viewVars

\* the page is (re)loaded: module load, then the component mounts and starts
\* its bootstrap requests and its effects
ModuleLoad ==
    /\ page = "loading"
    /\ LET st == stashPendingSocialOAuthParams(lsState, url, ssAvail, ssResult)
       IN /\ ssResult' = st.result
          /\ url' = st.params
    /\ page' = "app"
    /\ effectDue' = TRUE
    /\ boot' = {"configs", "accounts"}
    /\ cb' = Idle
    /\ isProcessingOAuth' = FALSE
    /\ outcome' = Null
    /\ UNCHANGED <<lsState, lsPlatform, ssAvail, exchanged, issued, loads, landing>>
    /\ UNCHANGED <<storeVars, exchangeVars>>
    /\ UNCHANGED viewVars
    /\ selectedPlatform' = Null
    /\ configs' = NoConfigs
    /\ UNCHANGED <<authRedirect, fallbackUri>>

\* loadPlatformConfigs / loadConnectedAccounts of the mount effects return
BootReturns(b) ==
    /\ page = "app"
    /\ b \in boot
    /\ boot' = boot \ {b}
    /\ UNCHANGED <<lsState, lsPlatform, ssAvail, ssResult, url, page, effectDue, cb,
                   isProcessingOAuth, outcome, exchanged, issued, loads, landing>>
    /\ UNCHANGED <<storeVars, exchangeVars>>
    /\ UNCHANGED viewVars
    /\ configs' = IF b = "configs" THEN LoadedConfigs(cfg, Browser) ELSE configs
    /\ UNCHANGED <<selectedPlatform, authRedirect, fallbackUri>>

\* the two localStorage slots once initiateOAuth has stored a new state
StorePending_keepPlatform(prevPlatform, state, p) ==
    [state |-> state, platform |-> IF prevPlatform = Null THEN p ELSE prevPlatform]
StorePending(prevPlatform, state, p) == [state |-> state, platform |-> p]

\* initiateOAuth: store the pending state and leave for the provider; a click
\* is handled only after the pending effects of the render have run
initiateOAuth(p, clientIdKnown) ==
    /\ page = "app"
    /\ ~effectDue
    /\ cb = Idle
    /\ issued < MaxAuth
    /\ issued' = issued + 1
    /\ IF clientIdKnown
       THEN /\ lsState' = StorePending(lsPlatform, issued + 1, p).state
            /\ lsPlatform' = StorePending(lsPlatform, issued + 1, p).platform
            /\ page' = "provider"
            /\ url' = NoParams
            /\ effectDue' = FALSE
            /\ boot' = {}
            /\ UNCHANGED outcome
       ELSE /\ lsState' = NoState
            /\ lsPlatform' = Null
            /\ outcome' = "MissingClientCredentials"
            /\ UNCHANGED <<page, url, effectDue, boot>>
    /\ UNCHANGED <<ssAvail, ssResult, cb, isProcessingOAuth, exchanged, loads, landing>>
    /\ UNCHANGED <<storeVars, exchangeVars>>
    /\ UNCHANGED viewVars
    /\ authRedirect' = IF clientIdKnown
                       THEN redirectUri(selectedPlatform, configs, fallbackUri)
                       ELSE authRedirect
    /\ UNCHANGED <<selectedPlatform, configs, fallbackUri>>

\* the browser arrives at the app with query parameters: the provider's
\* redirect, or any link that carries a code and a state
Return(code, state, error) ==
    /\ \/ page = "provider"
       \/ page = "app" /\ cb = Idle
    /\ loads < MaxLoads
    /\ loads' = loads + 1
    /\ url' = [code |-> code, state |-> state, error |-> error]
    /\ page' = "loading"
    /\ effectDue' = FALSE
    /\ boot' = {}
    /\ landing' = [code |-> code, state |-> state, error |-> error, pending |-> lsState,
                   platform |-> lsPlatform]
    /\ UNCHANGED <<lsState, lsPlatform, ssAvail, ssResult, cb, isProcessingOAuth, outcome,
                   exchanged, issued>>
    /\ UNCHANGED <<storeVars, exchangeVars>>
    /\ UNCHANGED viewVars
    /\ UNCHANGED redirectVars

\* the page is loaded again at the URL it shows; a request in flight stays
\* sent, the code that waited for its answer is gone with the old page
Reload ==
    /\ page = "app"
    /\ loads < MaxLoads
    /\ loads' = loads + 1
    /\ page' = "loading"
    /\ effectDue' = FALSE
    /\ boot' = {}
    /\ landing' = [code |-> url.code, state |-> url.state, error |-> url.error,
                   pending |-> lsState, platform |-> lsPlatform]
    /\ UNCHANGED <<lsState, lsPlatform, ssAvail, ssResult, url, cb, isProcessingOAuth,
                   outcome, exchanged, issued>>
    /\ UNCHANGED <<storeVars, exchangeVars>>
    /\ UNCHANGED viewVars
    /\ UNCHANGED redirectVars

\* clearParams of the callback effect: the query parameters it leaves in the URL
clearParams_keep(params) == params
clearParams(params) == NoParams

\* the state check of handleOAuthCallback
StateMatches_any(state, expected) == TRUE
StateMatches(state, expected) == state = expected

\* what the pending-state slots hold once resetOAuthState has run
resetOAuthState == [state |-> NoState, platform |-> Null]

\* the callback effect: reads the URL, and starts handleOAuthCallback up to
\* its first await (the exchange request)
CallbackEffect ==
    /\ page = "app"
    /\ effectDue
    /\ IF url.error # Null
       THEN \* provider error: toast, resetOAuthState, clearParams
            /\ outcome' = "ProviderError"
            /\ lsState' = resetOAuthState.state
            /\ lsPlatform' = resetOAuthState.platform
            /\ url' = clearParams(url)
            /\ effectDue' = FALSE
            /\ UNCHANGED <<cb, isProcessingOAuth, exchanged>>
       ELSE IF url.code = Null \/ url.state = NoState \/ isProcessingOAuth
            THEN /\ effectDue' = FALSE
                 /\ UNCHANGED <<outcome, lsState, lsPlatform, url, cb, isProcessingOAuth,
                                exchanged>>
            ELSE IF lsPlatform = Null \/ lsState = NoState
                 THEN \* 'OAuth session not found': catch, then clearParams
                      /\ outcome' = "SessionNotFound"
                      /\ url' = clearParams(url)
                      /\ effectDue' = FALSE
                      /\ UNCHANGED <<lsState, lsPlatform, cb, isProcessingOAuth, exchanged>>
                 ELSE IF ~StateMatches(url.state, lsState)
                      THEN \* 'OAuth state mismatch': catch, then clearParams
                           /\ outcome' = "StateMismatch"
                           /\ url' = clearParams(url)
                           /\ effectDue' = FALSE
                           /\ UNCHANGED <<lsState, lsPlatform, cb, isProcessingOAuth,
                                          exchanged>>
                      ELSE \* setIsProcessingOAuth(true) re-runs the effect;
                           \* the exchange request is sent
                           /\ isProcessingOAuth' = TRUE
                           /\ effectDue' = TRUE
                           /\ cb' = [pc |-> "exchange", platform |-> lsPlatform,
                                     code |-> url.code,
                                     redirect_uri |->
                                       redirectUri(selectedPlatform, configs, fallbackUri)]
                           /\ exchanged' = Append(exchanged,
                                  [platform |-> lsPlatform, code |-> url.code,
                                   state |-> url.state,
                                   redirect_uri |->
                                     redirectUri(selectedPlatform, configs, fallbackUri),
                                   load |-> loads])
                           /\ UNCHANGED <<outcome, lsState, lsPlatform, url>>
    /\ UNCHANGED <<ssAvail, ssResult, page, boot, issued, loads, landing>>
    /\ UNCHANGED <<storeVars, exchangeVars>>
    /\ UNCHANGED viewVars
    /\ UNCHANGED redirectVars

\* expiry hint the component sends to save-social-tokens
clientExpiresAt(data, t) ==
    IF data.expires_at.t # "null"
    THEN data.expires_at
    ELSE IF data.expires_in.t = "num" THEN NumHint(t + data.expires_in.v * 1000) ELSE NoHint

SaveBody(platform, data, t) ==
    [platform |-> platform,
     access_token |-> data.access_token,
     refresh_token |-> data.refresh_token,
     expires_at |-> clientExpiresAt(data, t),
     metadata |-> IF data.token_type = Null THEN "bearer" ELSE data.token_type]

\* the finally block of handleOAuthCallback, then catch and clearParams
CallbackEnds(result) ==
    /\ cb' = Idle
    /\ isProcessingOAuth' = FALSE
    /\ effectDue' = TRUE
    /\ lsState' = resetOAuthState.state
    /\ lsPlatform' = resetOAuthState.platform
    /\ url' = clearParams(url)
    /\ outcome' = result

\* an exchange that also stores the token it obtained
ExchangeStores_persist(rows, u, platform, resp) ==
    IF resp.status = "ok" /\ (CHOOSE d \in resp.rows : TRUE).access_token # Null
    THEN UpsertToken(rows, TokenRow(u, SaveBody(platform, CHOOSE d \in resp.rows : TRUE, T0)))
    ELSE rows
\* Token Store after the exchange handler has run: it issues no statement
ExchangeStores(rows, u, platform, resp) == rows

\* exchange-oauth-token answers and handleOAuthCallback continues to its next await
ExchangeReturns(prov) ==
    /\ page = "app"
    /\ cb.pc = "exchange"
    /\ LET ex == ExchangeOAuthToken(Browser,
                    [platform |-> cb.platform, code |-> cb.code,
                     redirect_uri |-> cb.redirect_uri], env, cfg, prov)
       IN /\ tokenReq' = ex.req
          /\ tokens' = ExchangeStores(tokens, Browser, cb.platform, ex.resp)
          /\ IF ex.resp.status # "ok"
             THEN /\ CallbackEnds("TokenExchangeFailed")
                  /\ last' = ex.resp
             ELSE LET data == CHOOSE d \in ex.resp.rows : TRUE
                  IN IF data.access_token = Null
                     THEN /\ CallbackEnds("TokenExchangeFailed")
                          /\ last' = ex.resp
                     ELSE /\ cb' = [pc |-> "save", platform |-> cb.platform,
                                    body |-> SaveBody(cb.platform, data, now),
                                    data |-> data, at |-> now]
                          /\ last' = ex.resp
                          /\ UNCHANGED <<isProcessingOAuth, effectDue, lsState, lsPlatform,
                                         url, outcome>>
    /\ UNCHANGED <<ssAvail, ssResult, page, boot, exchanged, issued, loads, landing>>
    /\ UNCHANGED <<now, feeds, nextFeedId, posts, dc, rf>>
    /\ UNCHANGED <<cfg, env>>
    /\ UNCHANGED viewVars
    /\ UNCHANGED redirectVars

\* save-social-tokens answers
SaveReturns(dbOk) ==
    /\ page = "app"
    /\ cb.pc = "save"
    /\ LET sv == SaveSocialTokens(tokens, Browser, cb.body, dbOk)
       IN /\ tokens' = sv.rows
          /\ last' = sv.resp
          /\ IF sv.resp.status # "ok"
             THEN CallbackEnds("SaveFailed")
             ELSE /\ cb' = [pc |-> "reload", platform |-> cb.platform]
                  /\ UNCHANGED <<isProcessingOAuth, effectDue, lsState, lsPlatform, url,
                                 outcome>>
    /\ UNCHANGED <<ssAvail, ssResult, page, boot, exchanged, issued, loads, landing>>
    /\ UNCHANGED <<now, feeds, nextFeedId, posts, dc, rf>>
    /\ UNCHANGED exchangeVars
    /\ UNCHANGED viewVars
    /\ UNCHANGED redirectVars

\* loadConnectedAccounts awaited by handleOAuthCallback returns
ReloadReturns ==
    /\ page = "app"
    /\ cb.pc = "reload"
    /\ CallbackEnds("Connected")
    /\ UNCHANGED <<ssAvail, ssResult, page, boot, exchanged, issued, loads, landing>>
    /\ UNCHANGED <<storeVars, exchangeVars>>
    /\ UNCHANGED viewVars
    /\ UNCHANGED redirectVars

\* a call of exchange-oauth-token
ExchangeCall(u, p, code, prov) ==
    /\ LET ex == ExchangeOAuthToken(u, [platform |-> p, code |-> code, redirect_uri |-> Origin],
                                    env, cfg, prov)
       IN /\ tokenReq' = ex.req
          /\ last' = ex.resp
          /\ tokens' = ExchangeStores(tokens, u, p, ex.resp)
    /\ UNCHANGED <<cfg, env>>
    /\ UNCHANGED <<now, feeds, nextFeedId, posts, dc, rf>>
    /\ UNCHANGED clientVars

\* ------------------------------------------------ feeds shown by the component
\* a feed as the component holds it, and a post as it shows it
FeedOf(row) == [id |-> row.id, platform |-> row.platform, accountId |-> row.account_id]
ShownPost(id) == [id |-> id, isError |-> FALSE, description |-> Null]
ErrorPost(message) == [id |-> "error", isError |-> TRUE, description |-> message]

\* what refreshFeed shows for a feed whose call failed with the given message
ErrorFeedPosts_empty(message) == {}
ErrorFeedPosts(message) == {ErrorPost(message)}

\* setFeedPosts(prev => ({...prev, [id]: entry})) and the delete of removeFeed
SetFeedPosts(prev, id, entry) == [prev EXCEPT ![id] = [has |-> TRUE, posts |-> entry]]
DeleteFeedPosts(prev, id) == [prev EXCEPT ![id] = NoEntry]

DefaultLimit == NumLimit(5)

loadConnectedAccounts(dbOk) ==
    /\ IF dbOk
       THEN LET data == {r \in Visible(Browser, tokens) : r.team_id = TeamIdOf(Browser)}
            IN /\ connectedAccounts' = {r.platform : r \in data}
               /\ last' = Resp("list_connected", Browser, Null, "ok", Null, data)
       ELSE /\ UNCHANGED connectedAccounts
            /\ last' = Resp("list_connected", Browser, Null, "error", "DbError", {})
    /\ UNCHANGED <<now, tokens, feeds, nextFeedId, posts, dc, rf>>
    /\ UNCHANGED <<oauthVars, exchangeVars, uiFeeds, feedPosts, refreshing>>

\* addFeed: the connection is looked up in connectedAccounts, the row is then
\* inserted, shown, and its first refresh started
addFeed(p, a, dbOk) ==
    /\ nextFeedId <= MaxShown
    /\ LET row == [id |-> nextFeedId, team_id |-> TeamIdOf(Browser), platform |-> p,
                   account_id |-> a]
       IN IF p \notin connectedAccounts
          THEN /\ last' = Resp("add_feed", Browser, p, "refused", "ConnectFirst", {})
               /\ UNCHANGED <<feeds, nextFeedId, uiFeeds, refreshing>>
          ELSE IF ~dbOk \/ ~user_belongs_to_team(Browser, row.team_id)
               THEN /\ last' = Resp("add_feed", Browser, p, "error", "DbError", {})
                    /\ UNCHANGED <<feeds, nextFeedId, uiFeeds, refreshing>>
               ELSE /\ feeds' = feeds \cup {row}
                    /\ nextFeedId' = nextFeedId + 1
                    /\ uiFeeds' = uiFeeds \cup {FeedOf(row)}
                    /\ refreshing' = refreshing \cup {FeedOf(row)}
                    /\ last' = Resp("add_feed", Browser, p, "ok", Null, {row})
    /\ UNCHANGED <<now, tokens, posts, dc, rf>>
    /\ UNCHANGED <<oauthVars, exchangeVars, feedPosts, connectedAccounts>>

\* removeFeed: delete the row, then drop the feed and its posts entry
removeFeed(feedId, dbOk) ==
    /\ \E f \in uiFeeds : f.id = feedId
    /\ IF dbOk
       THEN /\ feeds' = feeds \ {r \in Visible(Browser, feeds) : r.id = feedId}
            /\ uiFeeds' = {f \in uiFeeds : f.id # feedId}
            /\ feedPosts' = DeleteFeedPosts(feedPosts, feedId)
            /\ last' = Resp("remove_feed", Browser, Null, "ok", Null, {})
       ELSE /\ UNCHANGED <<feeds, uiFeeds, feedPosts>>
            /\ last' = Resp("remove_feed", Browser, Null, "error", "DbError", {})
    /\ UNCHANGED <<now, tokens, nextFeedId, posts, dc, rf>>
    /\ UNCHANGED <<oauthVars, exchangeVars, connectedAccounts, refreshing>>

\* the refresh button of a feed: the call to fetch-social-posts is sent
RefreshFeedCall(f) ==
    /\ f \in uiFeeds
    /\ f \notin refreshing
    /\ refreshing' = refreshing \cup {f}
    /\ last' = Resp("refresh_click", Browser, f.platform, "pending", Null, {})
    /\ UNCHANGED <<now, tokens, feeds, nextFeedId, posts, dc, rf>>
    /\ UNCHANGED <<oauthVars, exchangeVars, uiFeeds, feedPosts, connectedAccounts>>

\* fetch-social-posts reads the token for a call in flight; when it throws, the
\* answer comes back and refreshFeed shows the error placeholder
RefreshFeedLookup(f, dbOk) ==
    /\ f \in refreshing
    /\ rf[Browser] = Idle
    /\ LET e == FetchError(Browser, f.platform, dbOk)
       IN IF e # Null
          THEN /\ last' = FetchResp(Browser, f.platform, DefaultLimit, "error", e)
               /\ feedPosts' = SetFeedPosts(feedPosts, f.id, ErrorFeedPosts(e))
               /\ refreshing' = refreshing \ {f}
               /\ UNCHANGED rf
          ELSE /\ last' = FetchResp(Browser, f.platform, DefaultLimit, "pending", Null)
               /\ rf' = [rf EXCEPT ![Browser] =
                           [pc |-> "provider", platform |-> f.platform,
                            account_id |-> f.accountId,
                            limit |-> normalizeLimit(sanitizeLimit(DefaultLimit)),
                            access_token |-> FetchToken(Browser, f.platform).access_token,
                            feed |-> f]]
               /\ UNCHANGED <<feedPosts, refreshing>>
    /\ UNCHANGED <<now, tokens, feeds, nextFeedId, posts, dc>>
    /\ UNCHANGED <<oauthVars, exchangeVars, uiFeeds, connectedAccounts>>

\* the adapter answers, the handler caches and answers, refreshFeed shows the
\* posts or the error placeholder
RefreshFeedReturns(ok, ids, cacheOk) ==
    /\ rf[Browser] # Idle
    /\ Cardinality(ids) <= rf[Browser].limit
    /\ last' = FetchAnswer(Browser, rf[Browser], ok, ids, cacheOk)
    /\ posts' = CacheAfterFetch(posts, Browser, rf[Browser], ok, ids, cacheOk, now)
    /\ rf' = [rf EXCEPT ![Browser] = Idle]
    /\ feedPosts' = SetFeedPosts(feedPosts, rf[Browser].feed.id,
                                 IF ok THEN {ShownPost(id) : id \in ids}
                                 ELSE ErrorFeedPosts("AdapterFetchFailed"))
    /\ refreshing' = refreshing \ {rf[Browser].feed}
    /\ UNCHANGED <<now, tokens, feeds, nextFeedId, dc>>
    /\ UNCHANGED <<oauthVars, exchangeVars, uiFeeds, connectedAccounts>>

\* ------------------------------------------------------------------- inputs
TeamPlatforms == {"youtube", "facebook"}
Accounts == {"UC123"}
PostIds == {"v1", "v2"}
Limits == {NoLimit, NumLimit(1), NumLimit(25)}

\* access tokens a provider hands to a team
FirstToken(u) == IF TeamIdOf(u) = 1 THEN "at1" ELSE "at9"
SecondToken(u) == IF TeamIdOf(u) = 1 THEN "at2" ELSE "at9"

SaveBodies(u, p) ==
    {[platform |-> p, access_token |-> FirstToken(u), refresh_token |-> "rt1",
      expires_at |-> NumHint(T0 + 1), metadata |-> "bearer"],
     [platform |-> p, access_token |-> SecondToken(u), refresh_token |-> Null,
      expires_at |-> NoHint, metadata |-> "mac"],
     [platform |-> p, access_token |-> Null, refresh_token |-> Null,
      expires_at |-> NoHint, metadata |-> "bearer"]}

\* an instant after T0, in milliseconds and in seconds
LaterMillis == T0 + 2000
LaterSeconds == 1702

AbsoluteHints ==
    {NumHint(LaterSeconds), NumHint(LaterMillis), StrHint(LaterSeconds), StrHint(LaterMillis),
     DateHint(LaterMillis)}

Envelopes ==
    {[access_token |-> "at1", refresh_token |-> "rt1", expires_in |-> NumHint(1),
      expires_at |-> NoHint, token_type |-> "bearer"],
     [access_token |-> "at2", refresh_token |-> Null, expires_in |-> NoHint,
      expires_at |-> NoHint, token_type |-> Null],
     [access_token |-> Null, refresh_token |-> Null, expires_in |-> NoHint,
      expires_at |-> NoHint, token_type |-> Null]}
    \cup {[access_token |-> "at1", refresh_token |-> "rt1", expires_in |-> NumHint(1),
           expires_at |-> h, token_type |-> "bearer"] : h \in AbsoluteHints}
NoEnvelope == [access_token |-> Null, refresh_token |-> Null, expires_in |-> NoHint,
               expires_at |-> NoHint, token_type |-> Null]
ProviderAnswers ==
    {[ok |-> TRUE, data |-> e, error |-> Null] : e \in Envelopes}
    \cup {[ok |-> FALSE, data |-> NoEnvelope, error |-> "invalid_grant"]}

NoEnv == [k \in EnvKeys |-> Null]
FullEnv == [k \in EnvKeys |->
              IF k \in {"GOOGLE_TOKEN_URL", "FACEBOOK_TOKEN_URL", "LINKEDIN_TOKEN_URL"}
              THEN Null ELSE k]
EnvChoices == {NoEnv, FullEnv, [FullEnv EXCEPT !["GOOGLE_TOKEN_URL"] = "env-url"]}

ConfigPlatforms == {"youtube", "linkedin"}
ConfigBodies ==
    {[platform |-> p, client_id |-> id, client_secret |-> sec, token_url |-> tu,
      auth_url |-> Null, scopes |-> Null, redirect_uri |-> Null] :
        p \in ConfigPlatforms, id \in {Null, "cfg-id"}, sec \in {Null, "", "cfg-secret"},
        tu \in {Null, "cfg-url"}}

\* request bodies with every field sent or omitted
OtherRedirectUri == "https://other.example/callback"
FullConfigBodies ==
    {[platform |-> "youtube", client_id |-> id, client_secret |-> sec, token_url |-> tu,
      auth_url |-> au, scopes |-> sc, redirect_uri |-> ru] :
        id \in {Null, "cfg-id"}, sec \in {Null, "cfg-secret"}, tu \in {Null, "cfg-url"},
        au \in {Null, "cfg-auth"}, sc \in {Null, "cfg-scopes"},
        ru \in {Null, OtherRedirectUri, social_redirect_uri_default}}

Codes == {"c1"}

\* --------------------------------------------------------------------- Init
InitStore ==
    /\ now = T0
    /\ tokens = {}
    /\ feeds = {}
    /\ nextFeedId = 1
    /\ posts = {}
    /\ dc = [u \in Users |-> Null]
    /\ rf = [u \in Users |-> Idle]
    /\ last = Resp("init", Null, Null, "ok", Null, {})

InitClient ==
    /\ lsState = NoState
    /\ lsPlatform = Null
    /\ ssResult = NoParams
    /\ url = NoParams
    /\ page = "loading"
    /\ effectDue = FALSE
    /\ boot = {}
    /\ cb = Idle
    /\ isProcessingOAuth = FALSE
    /\ outcome = Null
    /\ exchanged = <<>>
    /\ issued = 0
    /\ loads = 0
    /\ landing = [code |-> Null, state |-> NoState, error |-> Null, pending |-> NoState,
                  platform |-> Null]
    /\ uiFeeds = {}
    /\ feedPosts = [id \in FeedIds |-> NoEntry]
    /\ connectedAccounts = {}
    /\ refreshing = {}
    /\ selectedPlatform = Null
    /\ configs = NoConfigs
    /\ authRedirect = Null

InitExchange ==
    /\ cfg = {}
    /\ tokenReq = NoTokenReq

Init ==
    /\ InitStore
    /\ InitClient
    /\ ssAvail = TRUE
    /\ InitExchange
    /\ env = FullEnv
    /\ fallbackUri = Origin

\* ------------------------------------------- one team: tokens, feeds, disconnect
TeamUsers == {"u1", "u2"}

NextTeam ==
    \/ \E u \in TeamUsers, p \in TeamPlatforms, ok \in BOOLEAN :
          \E body \in SaveBodies(u, p) : SaveToken(u, body, ok)
    \/ \E u \in TeamUsers, p \in TeamPlatforms, ok \in BOOLEAN : DisconnectTokens(u, p, ok)
    \/ \E u \in TeamUsers, ok \in BOOLEAN : DisconnectFeeds(u, ok)
    \/ \E u \in TeamUsers, p \in TeamPlatforms, a \in Accounts : InsertFeed(u, TeamIdOf(u), p, a)
    \/ \E u \in TeamUsers, id \in 1..MaxFeeds : DeleteFeed(u, id)
    \/ \E u \in TeamUsers : SelectConnected(u, TeamIdOf(u))
    \/ \E u \in TeamUsers : SelectFeeds(u, TeamIdOf(u))

SpecTeam == Init /\ [][NextTeam]_vars

\* ------------------------------------------------ refresh_feed and the Post Cache
NextFeed ==
    \/ \E u \in TeamUsers, ok \in BOOLEAN :
          \E body \in SaveBodies(u, "youtube") : SaveToken(u, body, ok)
    \/ \E u \in TeamUsers, a \in Accounts, l \in Limits, ok \in BOOLEAN :
          FetchStart(u, "youtube", a, l, ok)
    \/ \E u \in TeamUsers, ok \in BOOLEAN, ids \in SUBSET PostIds, cacheOk \in BOOLEAN :
          FetchFinish(u, ok, ids, cacheOk)
    \/ Tick

SpecFeed == Init /\ [][NextFeed]_vars

\* --------------------------------------------------------- limits of refresh_feed
LimitInputs ==
    {NoLimit, StrLimit(7), NaNLimit, NumLimit(0 - 3), NumLimit(0), FracLimit(0, 5),
     NumLimit(1), NumLimit(7), FracLimit(7, 5), NumLimit(20), FracLimit(20, 5),
     NumLimit(21), NumLimit(25)}

NextLimit ==
    \/ \E u \in TeamUsers :
          SaveToken(u, CHOOSE b \in SaveBodies(u, "youtube") : b.refresh_token # Null, TRUE)
    \/ \E u \in TeamUsers, a \in Accounts, l \in LimitInputs : FetchStart(u, "youtube", a, l, TRUE)
    \/ \E u \in TeamUsers, a \in Accounts, l \in LimitInputs : refreshFeed(u, "youtube", a, l, TRUE)
    \/ \E u \in TeamUsers, ids \in SUBSET PostIds : FetchFinish(u, TRUE, ids, TRUE)

SpecLimit == Init /\ [][NextLimit]_vars

\* a member's view of the feeds while a second member connects and disconnects
Member == "u2"
ViewPlatform == "youtube"
ViewPostIds == {"v1"}
ViewToken == CHOOSE b \in SaveBodies(Member, ViewPlatform) : b.refresh_token # Null
\* the same token with an expiry that has passed
StaleToken == [ViewToken EXCEPT !.expires_at = NumHint(T0 - 1)]

NextView ==
    \/ \E body \in {ViewToken, StaleToken} : SaveToken(Member, body, TRUE)
    \/ DisconnectTokens(Member, ViewPlatform, TRUE)
    \/ DisconnectFeeds(Member, TRUE)
    \/ \E dbOk \in BOOLEAN : loadConnectedAccounts(dbOk)
    \/ \E a \in Accounts, dbOk \in BOOLEAN : addFeed(ViewPlatform, a, dbOk)
    \/ \E id \in FeedIds, dbOk \in BOOLEAN : removeFeed(id, dbOk)
    \/ \E f \in uiFeeds : RefreshFeedCall(f)
    \/ \E f \in refreshing, dbOk \in BOOLEAN : RefreshFeedLookup(f, dbOk)
    \/ \E ok \in BOOLEAN, ids \in SUBSET ViewPostIds, cacheOk \in BOOLEAN :
          RefreshFeedReturns(ok, ids, cacheOk)

SpecView == Init /\ [][NextView]_vars

\* ------------------------------------------------------- two teams, every operation
IsoUsers == {"u1", "u3"}

NextIso ==
    \/ \E u \in IsoUsers : SaveToken(u, CHOOSE b \in SaveBodies(u, "youtube") :
                                        b.refresh_token # Null, TRUE)
    \/ \E u \in IsoUsers : DisconnectTokens(u, "youtube", TRUE)
    \/ \E u \in IsoUsers : DisconnectFeeds(u, TRUE)
    \/ \E u \in IsoUsers, t \in Teams, a \in Accounts : InsertFeed(u, t, "youtube", a)
    \/ \E u \in IsoUsers, id \in 1..MaxFeeds : DeleteFeed(u, id)
    \/ \E u \in IsoUsers, t \in Teams : SelectConnected(u, t)
    \/ \E u \in IsoUsers, t \in Teams : SelectFeeds(u, t)
    \/ \E u \in IsoUsers, a \in Accounts : FetchStart(u, "youtube", a, NoLimit, TRUE)
    \/ \E u \in IsoUsers, ids \in SUBSET {"v1"} : FetchFinish(u, TRUE, ids, TRUE)

SpecIso == Init /\ [][NextIso]_vars

\* --------------------------------------------------------- the OAuth round trip
InitOAuth ==
    /\ InitStore
    /\ InitClient
    /\ ssAvail \in BOOLEAN
    /\ InitExchange
    /\ env = FullEnv
    /\ fallbackUri = Origin

NextOAuth ==
    \/ ModuleLoad
    \/ \E b \in {"configs", "accounts"} : BootReturns(b)
    \/ \E p \in PlatformKey, known \in BOOLEAN : initiateOAuth(p, known)
    \/ \E code \in Codes, state \in (0..issued) \cup {Forged} : Return(code, state, Null)
    \/ \E state \in (0..issued) \cup {Forged} : Return(Null, state, "access_denied")
    \/ CallbackEffect
    \/ \E prov \in ProviderAnswers : ExchangeReturns(prov)
    \/ \E ok \in BOOLEAN : SaveReturns(ok)
    \/ ReloadReturns
    \/ Tick

SpecOAuth == InitOAuth /\ [][NextOAuth]_vars

\* the round trip with the platform of each authorization fixed by its number
BeginPlatform(n) == IF n = 1 THEN "youtube" ELSE "linkedin"

NextPending ==
    \/ ModuleLoad
    \/ \E b \in {"configs", "accounts"} : BootReturns(b)
    \/ \E known \in BOOLEAN : initiateOAuth(BeginPlatform(issued + 1), known)
    \/ \E code \in Codes, state \in (0..issued) \cup {Forged} : Return(code, state, Null)
    \/ \E state \in (0..issued) \cup {Forged} : Return(Null, state, "access_denied")
    \/ CallbackEffect
    \/ \E prov \in ProviderAnswers : ExchangeReturns(prov)
    \/ \E ok \in BOOLEAN : SaveReturns(ok)
    \/ ReloadReturns
    \/ Tick

SpecPending == InitOAuth /\ [][NextPending]_vars

\* the round trip with reloads of the page
NextReload ==
    \/ NextOAuth
    \/ Reload

SpecReload == InitOAuth /\ [][NextReload]_vars

\* the round trip with stored platform configs and the add-feed selector, for
\* an app served at the canonical redirect URI or elsewhere
RedirectConfig == CHOOSE b \in FullConfigBodies :
                     /\ b.client_id = "cfg-id" /\ b.client_secret = "cfg-secret"
                     /\ b.redirect_uri = Null /\ b.auth_url = Null
                     /\ b.token_url = Null /\ b.scopes = Null

InitRedirect ==
    /\ InitStore
    /\ InitClient
    /\ ssAvail \in BOOLEAN
    /\ InitExchange
    /\ env = FullEnv
    /\ fallbackUri \in {Origin, social_redirect_uri_default}

NextRedirect ==
    \/ ModuleLoad
    \/ \E b \in {"configs", "accounts"} : BootReturns(b)
    \/ SaveConfig(Browser, RedirectConfig)
    \/ \E p \in {Null, "youtube", "linkedin"} : setSelectedPlatform(p)
    \/ \E p \in {"youtube", "linkedin"} : initiateOAuth(p, TRUE)
    \/ \E code \in Codes, state \in 1..issued : Return(code, state, Null)
    \/ CallbackEffect
    \/ \E prov \in ProviderAnswers : ExchangeReturns(prov)
    \/ \E ok \in BOOLEAN : SaveReturns(ok)
    \/ ReloadReturns

SpecRedirect == InitRedirect /\ [][NextRedirect]_vars

\* ------------------------------------------- exchange against config and environment
InitEx ==
    /\ InitStore
    /\ InitClient
    /\ ssAvail = TRUE
    /\ InitExchange
    /\ env \in EnvChoices
    /\ fallbackUri = Origin

NextEx ==
    \/ \E body \in ConfigBodies : SaveConfig("u1", body)
    \/ \E p \in PlatformKey, prov \in ProviderAnswers : ExchangeCall("u1", p, "c1", prov)
    \/ GetConfig("u1")
    \/ SelectConfigs("u1")

SpecEx == InitEx /\ [][NextEx]_vars

\* saving and reading platform configs
NextCfg ==
    \/ \E body \in FullConfigBodies : SaveConfig("u1", body)
    \/ GetConfig("u1")
    \/ SelectConfigs("u1")

SpecCfg == Init /\ [][NextCfg]_vars

\* ==================================================================== claims

\* C1: for every platform, once begin_authorization has stored a pending state,
\* a callback whose code comes with a state different from the stored one ends
\* in StateMismatch and no exchange request and no save_token request is sent.
C1_MismatchNeverExchanges ==
    [][(/\ page = "app" /\ effectDue /\ ~isProcessingOAuth
        /\ url.error = Null /\ url.code # Null /\ url.state # NoState
        /\ lsState # NoState /\ lsPlatform # Null
        /\ url.state # lsState)
       => /\ exchanged' = exchanged
          /\ cb' = cb
          /\ tokens' = tokens
          /\ tokenReq' = tokenReq
          /\ (page' = "app" /\ ~effectDue' => outcome' = "StateMismatch")]_vars

C1_Witness ==
    /\ outcome = "StateMismatch"
    /\ landing.state = Forged
    /\ landing.pending = 1
    /\ lsPlatform = "linkedin"
    /\ exchanged = <<>>
    /\ tokens = {}

\* C7: exchange never writes the Token Store, whether it succeeds or fails; a
\* token row appears or changes only in the step that applies a save_token.
C7_ExchangeDoesNotPersist ==
    [][/\ (cb.pc = "exchange" => tokens' = tokens)
       /\ (tokens' # tokens => cb.pc = "save" /\ last'.op = "save_token" /\ last'.status = "ok")]_vars

C7_Witness ==
    /\ cb.pc = "save"
    /\ last.op = "exchange"
    /\ last.status = "ok"
    /\ tokenReq.sent
    /\ tokens = {}

\* C9: when the browser returns with a code and a state equal to the stored
\* pending state and the start-up steps (module load, bootstrap, callback
\* effect) have all run, the Token Exchange Service has been invoked with that
\* code.
C9_MatchingReturnIsExchanged ==
    (/\ page = "app" /\ ~effectDue /\ boot = {} /\ cb = Idle
     /\ landing.code # Null /\ landing.error = Null
     /\ landing.state # NoState /\ landing.state = landing.pending
     /\ landing.platform # Null)
    => \E i \in 1..Len(exchanged) :
          exchanged[i].code = landing.code /\ exchanged[i].load = loads

HandledOutcomes ==
    {"Connected", "TokenExchangeFailed", "SaveFailed", "ProviderError", "StateMismatch"}

\* C10: once a redirect return has been handled, whatever the outcome, no
\* pending state remains stored.
C10_PendingStateIsSingleUse ==
    (page = "app" /\ outcome \in HandledOutcomes) => (lsState = NoState /\ lsPlatform = Null)

\* C2: refresh_feed fails with TokenExpired exactly when the stored token has a
\* non-null expires_at earlier than now; then no request goes to the provider
\* and the Post Cache is not written; a null expires_at is never rejected.
C2_ExpiredTokenFailsFast ==
    [][(last'.op = "refresh_feed" /\ rf[last'.user] = Idle /\ last'.error # "DbError")
       => LET rec == TokensFor(tokens, TeamIdOf(last'.user), last'.platform)
          IN /\ (last'.error = "TokenExpired")
                  <=> (\E r \in rec : r.expires_at # NoTime /\ r.expires_at < now)
             /\ (last'.error = "TokenExpired" => rf' = rf /\ posts' = posts)]_vars

C2_Witness ==
    /\ last.op = "refresh_feed"
    /\ last.error = "TokenExpired"
    /\ \E r \in tokens : r.expires_at # NoTime /\ r.expires_at < now
    /\ \A u \in Users : rf[u] = Idle
    /\ posts = {}

TokenRowOfRequest(u, arg) ==
    [team_id |-> TeamIdOf(u), platform |-> arg.platform,
     access_token |-> arg.access_token, refresh_token |-> arg.refresh_token,
     expires_at |-> toIsoString(arg.expires_at), metadata |-> arg.metadata,
     connected_by_user_id |-> u]

\* C3: after any interleaving of save_token and disconnect by members of one
\* team there is at most one token row per (team, platform); a save leaves
\* exactly the row built from its own request, and the row of a key changes
\* only by a save or a disconnect of that key.
C3_LastSaveWins ==
    /\ [](\A t \in Teams, p \in PlatformKey : Cardinality(TokensFor(tokens, t, p)) <= 1)
    /\ [][/\ (last'.op = "save_token" /\ last'.status = "ok")
              => TokensFor(tokens', TeamIdOf(last'.user), last'.platform)
                   = {TokenRowOfRequest(last'.user, last'.arg)}
          /\ \A t \in Teams, p \in PlatformKey :
                TokensFor(tokens', t, p) # TokensFor(tokens, t, p)
                => /\ last'.platform = p
                   /\ TeamIdOf(last'.user) = t
                   /\ \/ last'.op = "save_token" /\ last'.status = "ok"
                      \/ last'.op = "disconnect" /\ TokensFor(tokens', t, p) = {}]_vars

C3_Witness ==
    /\ dc["u1"] = "youtube"
    /\ last.op = "save_token"
    /\ last.user = "u2"
    /\ TokensFor(tokens, 1, "youtube")
         = {[team_id |-> 1, platform |-> "youtube", access_token |-> "at2",
             refresh_token |-> Null, expires_at |-> NoTime, metadata |-> "mac",
             connected_by_user_id |-> "u2"]}

\* C4: the token delete of a disconnect leaves no token row for (team,
\* platform), the feed delete leaves no feed row however many there were, and
\* neither touches anything else; on a platform with no rows both succeed and
\* change nothing.
C4_DisconnectCascades ==
    [][\A u \in Users :
         /\ (dc[u] = Null /\ dc'[u] # Null)
            => /\ TokensFor(tokens', TeamIdOf(u), dc'[u]) = {}
               /\ feeds' = feeds /\ posts' = posts
               /\ (TokensFor(tokens, TeamIdOf(u), dc'[u]) = {} => tokens' = tokens)
         /\ (dc[u] # Null /\ dc'[u] = Null /\ last'.status = "ok")
            => /\ FeedsFor(feeds', TeamIdOf(u), dc[u]) = {}
               /\ tokens' = tokens /\ posts' = posts
               /\ (FeedsFor(feeds, TeamIdOf(u), dc[u]) = {} => feeds' = feeds)
         /\ (last'.op = "disconnect" /\ last'.status = "error") => last'.error = "DbError"]_vars

C4_Witness ==
    /\ last.op = "disconnect"
    /\ last.status = "ok"
    /\ last.platform = "facebook"
    /\ nextFeedId > 2
    /\ FeedsFor(feeds, 1, "facebook") = {}
    /\ TokensFor(tokens, 1, "facebook") = {}
    /\ \A u \in Users : dc[u] = Null

SameCacheKey(a, b) ==
    /\ a.team_id = b.team_id /\ a.platform = b.platform
    /\ a.account_id = b.account_id /\ a.post_id = b.post_id

\* C5: the Post Cache never holds two rows with the same (team, platform,
\* account id, post id), and a refresh that writes the cache leaves exactly one
\* row for every post it returned, however often and however concurrently the
\* feed is refreshed.
C5_CacheUpsertIsIdempotent ==
    /\ [](\A a \in posts, b \in posts : SameCacheKey(a, b) => a = b)
    /\ [][(last'.op = "refresh_feed" /\ last'.status = "ok" /\ posts' # posts)
          => \A x \in last'.rows :
                Cardinality(PostsFor(posts', TeamIdOf(last'.user), last'.platform,
                                     x.account_id, x.post_id)) = 1]_vars

C5_Witness ==
    /\ last.op = "refresh_feed"
    /\ last.status = "ok"
    /\ Cardinality(last.rows) = 2
    /\ Cardinality(posts) = 2
    /\ now > T0
    /\ \A r \in posts : r.fetched_at = now
    /\ \E u \in Users : rf[u] # Idle

TeamRows(rows, t) == {r \in rows : r.team_id = t}

\* C6: a step taken by a caller of team B leaves every token, feed and cached
\* post of any other team unchanged, and what it returns or uses comes from
\* rows of team B only.
C6_TeamsAreIsolated ==
    [][LET me == TeamIdOf(last'.user)
       IN /\ \A t \in Teams \ {me} :
                /\ TeamRows(tokens', t) = TeamRows(tokens, t)
                /\ TeamRows(feeds', t) = TeamRows(feeds, t)
                /\ TeamRows(posts', t) = TeamRows(posts, t)
          /\ (last'.op = "list_connected"
                => last'.rows \subseteq {[platform |-> r.platform] : r \in TeamRows(tokens, me)})
          /\ (last'.op = "list_feeds" => last'.rows \subseteq TeamRows(feeds, me))
          /\ (last'.op \in {"add_feed", "save_token"} => \A r \in last'.rows : r.team_id = me)
          /\ (rf[last'.user] = Idle /\ rf'[last'.user] # Idle
                => rf'[last'.user].access_token
                     \in {r.access_token : r \in TeamRows(tokens, me)})]_vars

C6_Witness ==
    /\ last.op = "list_feeds"
    /\ last.user = "u3"
    /\ last.rows = {}
    /\ TeamRows(tokens, 1) # {} /\ TeamRows(feeds, 1) # {} /\ TeamRows(posts, 1) # {}
    /\ TeamRows(tokens, 2) # {} /\ TeamRows(posts, 2) # {}

\* C8: the client id, client secret and token URL of the token request are the
\* team's PlatformConfig values whenever the config supplies them, and exchange
\* fails for missing credentials only when neither the config nor the
\* environment supplies a client id and a secret.
C8_ConfigWinsOverEnvironment ==
    (last.op = "exchange")
    => LET c == ConfigOf(cfg, TeamIdOf(last.user), last.platform)
       IN /\ tokenReq.sent
             => /\ (c.client_id # Null => tokenReq.body.client_id = c.client_id)
                /\ (c.client_secret # Null => tokenReq.body.client_secret = c.client_secret)
                /\ (c.token_url # Null => tokenReq.tokenUrl = c.token_url)
          /\ (~tokenReq.sent)
             => \/ (c.client_id = Null /\ env[IdKey(last.platform)] = Null)
                \/ (c.client_secret = Null /\ env[SecretKey(last.platform)] = Null)

EndedOutcomes ==
    {"Connected", "TokenExchangeFailed", "SaveFailed", "ProviderError", "StateMismatch",
     "SessionNotFound"}

\* C11: once the client has handled a redirect return, whatever the outcome,
\* the visible URL carries no code, state or error parameter any more.
C11_HandledReturnLeavesCleanUrl ==
    /\ (page = "app" /\ outcome \in EndedOutcomes) => url = NoParams
    /\ (/\ page = "app" /\ ~effectDue /\ cb = Idle
        /\ (landing.error # Null \/ (landing.code # Null /\ landing.state # NoState)))
       => url = NoParams

C11_Witness ==
    /\ page = "app"
    /\ outcome = "Connected"
    /\ landing.code # Null
    /\ landing.state = landing.pending
    /\ ~effectDue
    /\ cb = Idle
    /\ url = NoParams
    /\ tokens # {}

\* C12: when the redirect return carries an error parameter and the start-up
\* steps have run, the provider's description has been surfaced, the pending
\* state and platform are cleared and no exchange request was sent for it.
C12_ProviderErrorAborts ==
    (/\ page = "app" /\ ~effectDue /\ cb = Idle /\ landing.error # Null
     /\ outcome # "MissingClientCredentials")
    => /\ outcome = "ProviderError"
       /\ lsState = NoState
       /\ lsPlatform = Null
       /\ \A i \in 1..Len(exchanged) : exchanged[i].load # loads

\* C13: when exchange succeeded and save_token failed, the failure is shown and
\* the client still holds the token envelope in a pending save it can repeat.
C13_SaveFailureIsRetryable ==
    (page = "app" /\ outcome = "SaveFailed") => cb.pc = "save"

NoSecret == {Null, ""}

\* C14: save_platform_config without a secret (omitted or empty) leaves the
\* stored secret of the (team, platform) config as it was, with a non-empty
\* secret it stores that secret, and the stored secret of a config changes in
\* no other way.
C14_OmittedSecretIsKept ==
    [][/\ (last'.op = "save_config")
          => LET t == TeamIdOf(last'.user)
                 p == last'.platform
             IN /\ ConfigOf(cfg', t, p).client_secret
                     = IF last'.arg.client_secret \in NoSecret
                       THEN ConfigOf(cfg, t, p).client_secret
                       ELSE last'.arg.client_secret
                /\ ConfigOf(cfg', t, p).client_id = last'.arg.client_id
                /\ \A q \in PlatformKey \ {p} : ConfigOf(cfg', t, q) = ConfigOf(cfg, t, q)
       /\ \A t \in Teams, p \in PlatformKey :
             ConfigOf(cfg', t, p).client_secret # ConfigOf(cfg, t, p).client_secret
             => /\ last'.op = "save_config"
                /\ last'.platform = p
                /\ last'.arg.client_secret \notin NoSecret]_vars

C14_Witness ==
    /\ last.op = "save_config"
    /\ last.arg.client_secret = Null
    /\ last.arg.client_id = Null
    /\ ConfigOf(cfg, 1, last.platform).client_secret = "cfg-secret"
    /\ ConfigOf(cfg, 1, last.platform).client_id = Null

StoredSecrets == {c.client_secret : c \in cfg} \ {Null}
TextFields == {"client_id", "client_secret", "token_url", "access_token", "refresh_token"}

\* C15: no response a client receives, and no row a team member can read from
\* the browser, contains a stored client secret.
C15_SecretNeverReachesClient ==
    /\ last.error \notin StoredSecrets
    /\ \A r \in last.rows :
          \A f \in TextFields \cap DOMAIN r : r[f] \notin StoredSecrets

\* C16: in every operation the team id that keys the rows read or written is
\* the one derived from the caller's session, so what the operation does and
\* returns does not depend on a team id the client sends.
C16_TeamIdIsDerivedServerSide ==
    [][LET me == TeamIdOf(last'.user)
       IN /\ (last'.op = "list_connected")
                => last'.rows = {[platform |-> r.platform] : r \in TeamRows(tokens, me)}
          /\ (last'.op = "list_feeds") => last'.rows = TeamRows(feeds, me)
          /\ (last'.op = "add_feed")
                => /\ last'.status = "ok"
                   /\ last'.rows # {}
                   /\ \A r \in last'.rows : r.team_id = me /\ r \in feeds'
          /\ (last'.op = "save_token" /\ last'.status = "ok")
                => \A r \in last'.rows : r.team_id = me]_vars

\* C17: disconnect deletes the token row before the feed rows: a failed token
\* delete ends the request with tokens and feeds untouched, the feed delete is
\* issued only by a request whose token delete has left no token row, and a
\* failed feed delete leaves the feeds present and restores no token.
C17_TokenGoesBeforeFeeds ==
    [][\A u \in Users :
         /\ (last'.op = "disconnect" /\ last'.user = u /\ dc[u] = Null
             /\ last'.status = "error")
            => tokens' = tokens /\ feeds' = feeds /\ dc'[u] = Null
         /\ (dc[u] = Null /\ dc'[u] # Null)
            => /\ last'.op = "disconnect" /\ last'.user = u /\ last'.status = "pending"
               /\ TokensFor(tokens', TeamIdOf(u), dc'[u]) = {}
               /\ feeds' = feeds
         /\ (dc[u] # Null /\ dc'[u] = Null /\ last'.status = "error")
            => tokens' = tokens /\ feeds' = feeds
         /\ (last'.op = "disconnect" /\ last'.user = u /\ feeds' # feeds)
            => /\ dc[u] = last'.platform
               /\ tokens' = tokens
               /\ \A r \in feeds \ feeds' : r.platform = dc[u] /\ r.team_id = TeamIdOf(u)]_vars

C17_Witness ==
    /\ last.op = "disconnect"
    /\ last.status = "error"
    /\ last.platform = "youtube"
    /\ \A u \in Users : dc[u] = Null
    /\ TokensFor(tokens, 1, "youtube") = {}
    /\ FeedsFor(feeds, 1, "youtube") # {}
    /\ TokensFor(tokens, 1, "facebook") # {}

\* C18: refresh_feed for a (team, platform) without a token row, never
\* connected or left behind by a disconnect, fails with NotConnected, sends
\* nothing to the provider and writes nothing to the Post Cache; with a token
\* row it does not fail that way.
C18_NoTokenMeansNotConnected ==
    [][(last'.op = "refresh_feed" /\ rf[last'.user] = Idle /\ last'.error # "DbError")
       => /\ (last'.error = "NotConnected")
               <=> (TokensFor(tokens, TeamIdOf(last'.user), last'.platform) = {})
          /\ (last'.error = "NotConnected") => (rf' = rf /\ posts' = posts)]_vars

C18_Witness ==
    /\ last.op = "refresh_feed"
    /\ last.error = "NotConnected"
    /\ last.user = "u1"
    /\ TokensFor(tokens, 1, "youtube") = {}
    /\ FeedsFor(feeds, 1, "youtube") # {}
    /\ TeamRows(posts, 1) # {}
    /\ rf["u1"] = Idle

\* C19: for every requested limit, sent as it is or through the component's
\* sanitizeLimit, the bound handed to the adapter lies in 1..20: 5 for a
\* missing, non-numeric or non-positive limit, the limit itself when it is a
\* whole number in 1..20, and 20 when it is above 20.
C19_LimitIsClamped ==
    [][(last'.op = "refresh_feed" /\ last'.status = "pending")
       => LET l == last'.arg
              b == rf'[last'.user].limit
          IN /\ b \in 1..20
             /\ (l.t # "number" \/ l.v < 0 \/ (l.v = 0 /\ l.f = 0)) => b = 5
             /\ (l.t = "number" /\ l.f = 0 /\ l.v \in 1..20) => b = l.v
             /\ (l.t = "number" /\ (l.v > 20 \/ (l.v = 20 /\ l.f > 0))) => b = 20]_vars

C19_Witness ==
    /\ last.op = "refresh_feed"
    /\ last.status = "pending"
    /\ last.arg = NumLimit(25)
    /\ rf[last.user].limit = 20
    /\ \E u \in Users : rf[u] # Idle /\ rf[u].limit = 5

\* the instant an absolute expiry hint denotes: epoch seconds below the cutoff,
\* epoch milliseconds from it on, as a number or as a numeric string
DenotedInstant(hint) ==
    IF hint.t = "date" THEN hint.v
    ELSE IF hint.v < SecondsCutoff THEN hint.v * 1000 ELSE hint.v

\* C20: after exchange and save the stored expires_at is one absolute instant:
\* the time of the callback plus expires_in seconds, or the instant an absolute
\* expires_at denotes (epoch seconds or milliseconds, number or numeric
\* string), or null when the provider gave no hint.
C20_ExpiryIsOneInstant ==
    [][(cb.pc = "save" /\ last'.op = "save_token" /\ last'.status = "ok")
       => \A row \in TokensFor(tokens', TeamIdOf(Browser), cb.platform) :
             row.expires_at
               = IF cb.data.expires_at.t # "null"
                 THEN DenotedInstant(cb.data.expires_at)
                 ELSE IF cb.data.expires_in.t = "num" /\ cb.data.expires_in.v > 0
                      THEN cb.at + cb.data.expires_in.v * 1000
                      ELSE NoTime]_vars

CommonBodyFields == {"code", "client_id", "client_secret", "redirect_uri"}

\* C21 as stated: for each of the four platforms the form body of the token
\* request contains grant_type=authorization_code together with code,
\* client_id, client_secret and redirect_uri.
C21_EveryBodyHasGrantType ==
    (last.op = "exchange" /\ tokenReq.sent)
    => /\ CommonBodyFields \subseteq DOMAIN tokenReq.body
       /\ "grant_type" \in DOMAIN tokenReq.body
       /\ tokenReq.body.grant_type = "authorization_code"

\* C21 as amended: the body carries the code, the redirect_uri, a client id
\* and a client secret for every platform; grant_type is
\* authorization_code for youtube and linkedin and is absent for facebook and
\* instagram; youtube adds access_type=offline.
C21_BodyByPlatform ==
    (last.op = "exchange" /\ tokenReq.sent)
    => LET p == last.platform
           body == tokenReq.body
       IN /\ CommonBodyFields \subseteq DOMAIN body
          /\ body.code = "c1"
          /\ body.redirect_uri = Origin
          /\ body.client_id # Null
          /\ body.client_secret # Null
          /\ (p \in {"youtube", "linkedin"})
                => ("grant_type" \in DOMAIN body /\ body.grant_type = "authorization_code")
          /\ (p \in {"facebook", "instagram"}) => DOMAIN body = CommonBodyFields
          /\ ("access_type" \in DOMAIN body) <=> (p = "youtube")

C21_Witness ==
    /\ last.op = "exchange"
    /\ last.platform = "instagram"
    /\ last.status = "ok"
    /\ tokenReq.sent
    /\ DOMAIN tokenReq.body = CommonBodyFields
    /\ tokenReq.body.code = "c1"
\* C22: when the adapter succeeds and the cache upsert fails, refresh_feed
\* still answers success with exactly the posts the adapter returned, and the
\* Post Cache is left as it was.
C22_CacheFailureIsSwallowed ==
    [][(last'.op = "refresh_feed" /\ rf[last'.user] # Idle /\ rf'[last'.user] = Idle
        /\ last'.arg.ok /\ ~last'.arg.cacheOk)
       => /\ last'.status = "ok" /\ last'.error = Null
          /\ last'.rows = {[post_id |-> id, account_id |-> rf[last'.user].account_id] :
                              id \in last'.arg.ids}
          /\ posts' = posts]_vars

C22_Witness ==
    /\ last.op = "refresh_feed" /\ last.status = "ok"
    /\ last.arg.ok /\ ~last.arg.cacheOk /\ last.arg.ids = {"v1", "v2"}
    /\ Cardinality(last.rows) = 2
    /\ posts = {}

\* C23: when refresh_feed fails (not connected, token expired, adapter error,
\* or any other error of the handler) the Post Cache is left as it was and the
\* component replaces the posts of that feed, and of no other feed, with
\* exactly one post with id "error", flagged isError and carrying the failure
\* message; no row of the Post Cache ever holds that placeholder.
C23_FailedRefreshShowsOnePlaceholder ==
    [][/\ (last'.op = "refresh_feed" /\ last'.status = "error")
          => /\ posts' = posts
             /\ \E f \in refreshing \ refreshing' :
                   /\ feedPosts'[f.id].has
                   /\ feedPosts'[f.id].posts =
                         {[id |-> "error", isError |-> TRUE, description |-> last'.error]}
                   /\ \A id \in FeedIds \ {f.id} : feedPosts'[id] = feedPosts[id]
       /\ \A r \in posts' : r.post_id # "error"]_vars

C23_Witness ==
    /\ last.op = "refresh_feed" /\ last.error = "TokenExpired"
    /\ posts # {}
    /\ \E id \in FeedIds : /\ feedPosts[id].has
                           /\ feedPosts[id].posts = {ErrorPost("TokenExpired")}

\* C25: a row of the feeds table is created by add_feed only while a token row
\* of the caller's team and that platform exists.
C25_FeedRowNeedsToken ==
    [][(last'.op = "add_feed" /\ feeds' # feeds)
       => TokensFor(tokens, TeamIdOf(last'.user), last'.platform) # {}]_vars

\* feeds the component showed and removed again
RemovedFeeds == {id \in FeedIds : id < nextFeedId /\ \A f \in uiFeeds : f.id # id}

\* C30: the component holds no posts entry for a feed it has removed.
C30_RemovedFeedHasNoPosts == \A id \in RemovedFeeds : ~feedPosts[id].has

\* C24: one authorization is pending at most, the one begun last: a begin
\* replaces the stored state and the stored platform together; a callback
\* with the state of a replaced authorization starts no exchange and no save;
\* every exchange is for the platform its state was issued for, and every
\* token row saved is of the platform of the exchange before it.
C24_OnePendingAuthorization ==
    /\ [](lsState # NoState => (lsState = issued /\ lsPlatform = BeginPlatform(issued)))
    /\ [][/\ (page = "app" /\ page' = "app" /\ effectDue /\ effectDue' = FALSE
               /\ url.code # Null /\ url.error = Null /\ ~isProcessingOAuth
               /\ url.state \in 1..(issued - 1))
              => /\ exchanged' = exchanged /\ cb' = cb /\ tokens' = tokens
                 /\ outcome' \in {"StateMismatch", "SessionNotFound"}
          /\ (exchanged' # exchanged)
              => /\ url.state = issued
                 /\ exchanged'[Len(exchanged')].platform = BeginPlatform(url.state)
          /\ (tokens' # tokens)
              => \A r \in tokens' \ tokens :
                    r.platform = exchanged[Len(exchanged)].platform]_vars

C24_Witness ==
    /\ issued = 2 /\ lsState = 2 /\ lsPlatform = "linkedin"
    /\ landing.code # Null /\ landing.state = 1 /\ landing.pending = 2
    /\ outcome = "StateMismatch"
    /\ exchanged = << >>
    /\ tokens = {}

\* C26: no exchange request is sent for a state for which one was sent
\* before, however often the callback effect runs.
C26_OneExchangePerState ==
    [][(exchanged' # exchanged)
       => \A i \in 1..Len(exchanged) : exchanged[i].state # url.state]_vars

NullableFields == {"client_id", "auth_url", "token_url", "scopes"}

\* C28 as stated: after save_platform_config each of client id, authorization
\* URL, token URL, scopes and redirect URI is stored as the request holds it,
\* null when omitted, and the client secret is kept when omitted.
C28_OmittedFieldsAreNull ==
    [][(last'.op = "save_config")
       => LET row == ConfigOf(cfg', TeamIdOf(last'.user), last'.platform)
              old == ConfigOf(cfg, TeamIdOf(last'.user), last'.platform)
          IN /\ \A f \in NullableFields \cup {"redirect_uri"} : row[f] = last'.arg[f]
             /\ (last'.arg.client_secret \in NoSecret)
                   => row.client_secret = old.client_secret]_vars

\* C28 as amended: after save_platform_config each of client id, authorization
\* URL, token URL and scopes is stored as the request holds it, null when
\* omitted whatever was stored before; the redirect URI is stored as the
\* canonical default whatever the request holds; the client secret is kept
\* when omitted and replaced when sent.
C28_OmittedFieldsAreNullButRedirect ==
    [][(last'.op = "save_config")
       => LET row == ConfigOf(cfg', TeamIdOf(last'.user), last'.platform)
              old == ConfigOf(cfg, TeamIdOf(last'.user), last'.platform)
          IN /\ \A f \in NullableFields : row[f] = last'.arg[f]
             /\ row.redirect_uri = social_redirect_uri_default
             /\ row.client_secret = IF last'.arg.client_secret \in NoSecret
                                    THEN old.client_secret
                                    ELSE last'.arg.client_secret]_vars

C28_Witness ==
    /\ last.op = "save_config"
    /\ \A f \in NullableFields \cup {"redirect_uri", "client_secret"} : last.arg[f] = Null
    /\ LET row == ConfigOf(cfg, 1, last.platform)
       IN /\ \A f \in NullableFields : row[f] = Null
          /\ row.client_secret = "cfg-secret"
          /\ row.redirect_uri = social_redirect_uri_default

\* C29: every stored config row, and every row of the public view and of the
\* answer of get_platform_config made from one, has the canonical default
\* redirect URI, whatever redirect_uri the requests held.
C29_RedirectUriIsCanonical ==
    /\ \A r \in cfg : r.redirect_uri = social_redirect_uri_default
    /\ \A r \in social_platform_configs_public(cfg) :
          r.redirect_uri = social_redirect_uri_default
    /\ (last.op = "get_config")
          => \A r \in last.rows :
                ("redirect_uri" \in DOMAIN r) => r.redirect_uri = social_redirect_uri_default

C29_Witness ==
    /\ last.op = "save_config"
    /\ last.arg.redirect_uri = OtherRedirectUri
    /\ ConfigOf(cfg, 1, last.platform).redirect_uri = social_redirect_uri_default
    /\ ConfigOf(cfg, 1, last.platform).client_id = "cfg-id"

\* C27: the redirect_uri of every exchange request equals the redirect_uri of
\* the authorization URL of the authorization it completes.
C27_SameRedirectUri ==
    [][(exchanged' # exchanged)
       => exchanged'[Len(exchanged')].redirect_uri = authRedirect]_vars

====
